---- MODULE Spec2Model ----
(***************************************************************************)
(* Model of the IAM token lifecycle of bot.py: the module-level token      *)
(* globals loaded from .env, is_token_expired, create_jwt_token,           *)
(* save_token_to_env and the get_iam_token coroutine, run by several       *)
(* callers that interleave at the coroutine's await points.                *)
(*                                                                         *)
(* Strings are modelled as records [fmt, t]:                               *)
(*   fmt = "None"  Python None (os.getenv of an unset key)                 *)
(*   fmt = "empty" the empty string                                        *)
(*   fmt = "tok"   the bearer token number t                               *)
(*   fmt = "Z"     ISO-8601 timestamp with Z suffix, epoch second t        *)
(*   fmt = "naive" ISO-8601 timestamp without offset, epoch second t       *)
(*   fmt = "bad"   a non-empty string that is no ISO-8601 timestamp        *)
(*   fmt = "str"   an unrelated configuration value number t               *)
(*   fmt = "glued" the text of several entries run together on one line    *)
(* Time is in seconds since the epoch.                                     *)
(***************************************************************************)
EXTENDS Integers, Sequences, FiniteSets, TLC

VARIABLES
    now,                \* the system clock (time.time / datetime.now)
    IAM_TOKEN,          \* module global, bot.py:28
    IAM_TOKEN_EXPIRES,  \* module global, bot.py:29
    AUTHORIZED_KEY,     \* module global, bot.py:33
    envExists,          \* os.path.exists('.env')
    envFile,            \* content of .env: flat sequence of entries and newlines
    pc,                 \* per call: position inside get_iam_token
    ret,                \* per call: value returned by get_iam_token
    jwt,                \* per call: the assertion posted
    exchanges,          \* number of POSTs sent to the token endpoint
    ticks,              \* number of clock advances
    lastGood,           \* token and expiry of the last exchange that completed
    hist                \* per call: what is recorded about it

vars == <<now, IAM_TOKEN, IAM_TOKEN_EXPIRES, AUTHORIZED_KEY, envExists, envFile,
          pc, ret, jwt, exchanges, ticks, lastGood, hist>>

----------------------------------------------------------------------------
\* Bounds of the model

\* number of get_iam_token calls (coroutines) of the run
NumCallers == 2
MaxTicks == 1

Callers == 1..NumCallers

----------------------------------------------------------------------------
\* Program constants

\* timedelta(minutes=5), in seconds
MarginSeconds == 300

\* 'exp': now + 3600
JwtLifetime == 3600

IAM_TOKEN_URL == "https://iam.api.cloud.yandex.net/iam/v1/tokens"

----------------------------------------------------------------------------
\* Strings

Text(f, n) == [fmt |-> f, t |-> n]
NoneVal == Text("None", 0)
EmptyStr == Text("empty", 0)
Tok(k) == Text("tok", k)
IsoZ(n) == Text("Z", n)
IsoNaive(n) == Text("naive", n)
BadStr == Text("bad", 0)
Glued == Text("glued", 0)

\* Python truthiness of an optional string: None and "" are falsy
Falsy(s) == s.fmt \in {"None", "empty"}

----------------------------------------------------------------------------
\* The .env file: a flat sequence of entries "key=val" and newline characters

Entry(k, v) == [key |-> k, val |-> v]
NL == Entry("\n", EmptyStr)
Comment == Entry("#", EmptyStr)
IsNL(x) == x.key = "\n"

RECURSIVE ReadLinesFrom(_, _)
\* file.readlines(): split after every newline, the newline kept in its line
ReadLinesFrom(content, cur) ==
    IF content = <<>>
    THEN IF cur = <<>> THEN <<>> ELSE <<cur>>
    ELSE IF IsNL(Head(content))
         THEN <<Append(cur, Head(content))>> \o ReadLinesFrom(Tail(content), <<>>)
         ELSE ReadLinesFrom(Tail(content), Append(cur, Head(content)))

ReadLines(content) == ReadLinesFrom(content, <<>>)

RECURSIVE WriteLines(_)
\* file.writelines(new_lines): the lines written one after the other
WriteLines(lines) ==
    IF lines = <<>> THEN <<>> ELSE Head(lines) \o WriteLines(Tail(lines))

\* line.strip().startswith(key + "=")
StartsWithKey(line, k) == Len(line) >= 1 /\ line[1].key = k

\* f"{value}": a string is written as it is, None as the text "None"
Format(s) == IF s.fmt = "None" THEN BadStr ELSE s

TokenLine(token) == <<Entry("IAM_TOKEN", Format(token)), NL>>
ExpiresLine(expires_at) == <<Entry("IAM_TOKEN_EXPIRES", Format(expires_at)), NL>>

\* the loop of save_token_to_env over the lines read, bot.py:94-102
ReplaceLines(lines, token, expires_at) ==
    [i \in 1..Len(lines) |->
        IF StartsWithKey(lines[i], "IAM_TOKEN") THEN TokenLine(token)
        ELSE IF StartsWithKey(lines[i], "IAM_TOKEN_EXPIRES") THEN ExpiresLine(expires_at)
        ELSE lines[i]]

KeyFound(lines, k) == \E i \in 1..Len(lines) : StartsWithKey(lines[i], k)

\* new_lines of save_token_to_env, bot.py:86-107
NewLines(exists, content, token, expires_at) ==
    LET lines == IF exists THEN ReadLines(content) ELSE <<>>
        replaced == ReplaceLines(lines, token, expires_at)
        withToken == IF KeyFound(lines, "IAM_TOKEN") THEN replaced
                     ELSE Append(replaced, TokenLine(token))
    IN  IF KeyFound(lines, "IAM_TOKEN_EXPIRES") THEN withToken
        ELSE Append(withToken, ExpiresLine(expires_at))

\* the content save_token_to_env writes when nothing fails
SavedContent(exists, content, token, expires_at) ==
    WriteLines(NewLines(exists, content, token, expires_at))

\* What the file system lets the save do: "ok"; "open_error" (an OSError on
\* opening the file, the file untouched); "write_error" (an OSError after
\* open(..., 'w') truncated the file, the first k entries written; the
\* lines are buffered and flushed on close, so a failed flush leaves k = 0).
\* The except clause of save_token_to_env logs the error and returns.
SaveOutcomes == {"ok", "open_error", "write_error"}

\* how many entries reach the file when the write fails
WrittenOnError == {0}

Prefix(s, k) == SubSeq(s, 1, k)

\* the .env content after save_token_to_env, per outcome
save_token_to_env(exists, content, token, expires_at, outcome, k) ==
    LET new == SavedContent(exists, content, token, expires_at)
    IN  CASE outcome = "ok" -> [exists |-> TRUE, content |-> new]
          [] outcome = "open_error" -> [exists |-> exists, content |-> content]
          [] OTHER -> [exists |-> TRUE, content |-> Prefix(new, k)]

\* number of entries on a line, its newline not counted
EntryCount(line) == Cardinality({i \in 1..Len(line) : ~IsNL(line[i])})

\* load_dotenv() then os.getenv(k): the value of the last binding of k in the
\* file, None when the file has none
GetEnv(exists, content, k) ==
    LET lines == IF exists THEN ReadLines(content) ELSE <<>>
        hits == {i \in 1..Len(lines) : StartsWithKey(lines[i], k)}
    IN  IF hits = {} THEN NoneVal
        ELSE LET last == CHOOSE i \in hits : \A j \in hits : j <= i
             IN  IF EntryCount(lines[last]) = 1 THEN lines[last][1].val ELSE Glued

----------------------------------------------------------------------------
\* Freshness

\* datetime.fromisoformat(s.replace('Z', '+00:00')) succeeds
IsoParses(s) == s.fmt \in {"Z", "naive"}

\* is_token_expired with the margin taken off twice: a token is refreshed
\* 10 minutes before its expiry
IsTokenExpiredEarly(token, expires, clock) ==
    IF Falsy(token) \/ Falsy(expires) THEN TRUE
    ELSE IF ~IsoParses(expires) THEN TRUE
    ELSE IF expires.fmt = "naive" THEN TRUE
    ELSE clock >= expires.t - MarginSeconds - MarginSeconds

\* is_token_expired with > for >=: the token is still used at expiry - 5 min
IsTokenExpiredLate(token, expires, clock) ==
    IF Falsy(token) \/ Falsy(expires) THEN TRUE
    ELSE IF ~IsoParses(expires) THEN TRUE
    ELSE IF expires.fmt = "naive" THEN TRUE
    ELSE clock > expires.t - MarginSeconds

\* is_token_expired(), bot.py:51-62
IsTokenExpired(token, expires, clock) ==
    IF Falsy(token) \/ Falsy(expires) THEN TRUE
    ELSE IF ~IsoParses(expires) THEN TRUE          \* ValueError, caught
    ELSE IF expires.fmt = "naive" THEN TRUE        \* aware >= naive: TypeError, caught
    ELSE clock >= expires.t - MarginSeconds

is_token_expired == IsTokenExpired(IAM_TOKEN, IAM_TOKEN_EXPIRES, now)

----------------------------------------------------------------------------
\* Signing

Missing == Text("None", 0)
KeyFile(sa, pk, kid) == [service_account_id |-> sa, private_key |-> pk, id |-> kid]
GoodKey == KeyFile(Text("str", 1), Text("str", 2), Text("str", 3))

\* the key files json.load can return and the startup check accepts
KeyFiles == { GoodKey,
              KeyFile(Text("str", 1), BadStr, Text("str", 3)),
              KeyFile(Missing, Text("str", 2), Text("str", 3)) }

\* the key file holding the empty object {}
EmptyKey == KeyFile(Missing, Missing, Missing)

\* bot.py:35-36: all([..., AUTHORIZED_KEY]) asks only whether the loaded
\* object is non-empty
StartupAccepts(key) == key # EmptyKey

\* create_jwt_token raises: a KeyError on a missing field, or jwt.encode
\* rejecting the key material
SigningFails(key) ==
    \/ key.service_account_id = Missing
    \/ key.private_key = Missing
    \/ key.id = Missing
    \/ key.private_key.fmt # "str"

\* an assertion as jwt.encode is given it: payload, algorithm and headers
Jwt(payload, alg, headers) == [payload |-> payload, algorithm |-> alg, headers |-> headers]

NoJwt == Jwt([aud |-> "", iss |-> NoneVal, iat |-> 0, exp |-> 0], "", [kid |-> NoneVal])

\* create_jwt_token with the expiry put at the refresh margin
create_jwt_token_margin(key, clock) ==
    Jwt([aud |-> IAM_TOKEN_URL, iss |-> key.service_account_id,
         iat |-> clock, exp |-> clock + MarginSeconds],
        "PS256", [kid |-> key.id])

\* create_jwt_token(), bot.py:116-135
create_jwt_token(key, clock) ==
    Jwt([aud |-> IAM_TOKEN_URL, iss |-> key.service_account_id,
         iat |-> clock, exp |-> clock + JwtLifetime],
        "PS256", [kid |-> key.id])

----------------------------------------------------------------------------
\* The token endpoint

Response(st, js, tok, exp) ==
    [status |-> st, json |-> js, iamToken |-> tok, expiresAt |-> exp]

\* lifetimes the endpoint may give a token, in seconds
Lifetimes == {200, 3600}

\* What may come back for the k-th POST, sent at time sent: a connection error
\* (status 0), a non-2xx status, or a 200 whose body is not JSON, lacks a
\* field, carries an expiry that is no timestamp, or has the documented shape
\* with token number k.
Responses(k, sent) ==
    { Response(0, FALSE, Missing, Missing),
      Response(500, FALSE, Missing, Missing),
      Response(200, FALSE, Missing, Missing),
      Response(200, TRUE, Missing, IsoZ(sent + 3600)),
      Response(200, TRUE, Tok(k), Missing),
      Response(200, TRUE, Tok(k), BadStr) }
    \cup { Response(200, TRUE, Tok(k), IsoZ(sent + l)) : l \in Lifetimes }

\* what the endpoint did, as the caller's record keeps it
Outcome(r) ==
    IF r.status # 200 THEN "status"
    ELSE IF ~r.json \/ r.iamToken.fmt = "None" \/ r.expiresAt.fmt = "None" THEN "body"
    ELSE "none"

----------------------------------------------------------------------------
\* Initial states

FooLine == Entry("FOO", Text("str", 7))

File(e, c) == [exists |-> e, content |-> c]

InitExpiries == {IsoZ(4600), IsoZ(5300), IsoNaive(5300), BadStr}

\* .env files at process start: none, with both token keys, with an empty
\* token, with the token only
InitFiles ==
    { File(FALSE, <<>>),
      File(TRUE, <<Entry("IAM_TOKEN", EmptyStr), NL,
                   Entry("IAM_TOKEN_EXPIRES", IsoZ(5300)), NL>>),
      File(TRUE, <<Entry("IAM_TOKEN", Tok(0)), NL, FooLine, NL>>) }
    \cup { File(TRUE, <<Entry("IAM_TOKEN", Tok(0)), NL, FooLine, NL,
                        Entry("IAM_TOKEN_EXPIRES", e), NL>>) : e \in InitExpiries }

\* the clock at process start, and the steps it advances by: 4299, 4300 and
\* 4350 lie before, on and after expiresAt - 300 for expiresAt = 4600
StartTimes == {1000, 4299, 4350}
TickSteps == {1}

\* the starts taken: at 1000 and 4350 the process starts with a persisted
\* token that carries a UTC expiry, at 4299 with any of the files
Starts == { s \in StartTimes \X InitFiles :
              s[1] # 4299 =>
                GetEnv(s[2].exists, s[2].content, "IAM_TOKEN_EXPIRES").fmt = "Z" }

\* handle_message after its get_iam_token call: where it is, the token put in
\* the Authorization header of the completion request, the last reply it
\* attempted, and what failed first
NoHandler == [at |-> "token", auth |-> NoneVal, final |-> "none", why |-> "none"]

\* What is recorded about a call: whether it found the cache stale, where the
\* returned token came from and its expiry, how the save went, what went
\* wrong, the number of its POST, the number of the POST it found under way
\* when it started, whether an earlier call had failed by then, and how far
\* the handle_message that made the call has got.
NoHist == [stale |-> FALSE, origin |-> "none", exp |-> NoneVal, save |-> "none",
           err |-> "none", req |-> 0, joined |-> 0, afterFailure |-> FALSE,
           handler |-> NoHandler]

NoGood == [tok |-> NoneVal, exp |-> NoneVal]

InFlight == {p \in Callers : pc[p] = "posting"}

\* the calls that have raised
Failed == {p \in Callers : pc[p] = "failed"}

\* the earliest POST still under way, 0 when there is none
UnderWay ==
    IF InFlight = {} THEN 0
    ELSE hist[CHOOSE p \in InFlight : \A q \in InFlight : hist[p].req <= hist[q].req].req

\* the record of a call that starts now
StartHist(isStale) ==
    [NoHist EXCEPT !.stale = isStale,
                   !.joined = IF isStale THEN UnderWay ELSE 0,
                   !.afterFailure = (Failed # {})]

\* module load, bot.py:21-40: load_dotenv, the globals read from the
\* environment, the key file read
Load(f) ==
    /\ IAM_TOKEN = GetEnv(f.exists, f.content, "IAM_TOKEN")
    /\ IAM_TOKEN_EXPIRES = GetEnv(f.exists, f.content, "IAM_TOKEN_EXPIRES")

Init ==
    /\ \E s \in Starts :
        /\ now = s[1]
        /\ envExists = s[2].exists
        /\ envFile = s[2].content
        /\ Load(s[2])
    /\ AUTHORIZED_KEY \in {k \in KeyFiles \cup {EmptyKey} : StartupAccepts(k)}
    /\ pc = [p \in Callers |-> "idle"]
    /\ ret = [p \in Callers |-> NoneVal]
    /\ jwt = [p \in Callers |-> NoJwt]
    /\ exchanges = 0
    /\ ticks = 0
    /\ lastGood = NoGood
    /\ hist = [p \in Callers |-> NoHist]

----------------------------------------------------------------------------
\* get_iam_token, bot.py:140-168, one action per stretch between suspensions

\* bot.py:144-146: the cached token is returned
ReturnCached(p) ==
    /\ ~is_token_expired
    /\ pc' = [pc EXCEPT ![p] = "done"]
    /\ ret' = [ret EXCEPT ![p] = IAM_TOKEN]
    /\ hist' = [hist EXCEPT ![p] = [StartHist(FALSE) EXCEPT !.origin = "cache",
                    !.exp = IAM_TOKEN_EXPIRES]]
    /\ UNCHANGED <<jwt, exchanges>>

\* bot.py:149-151, 136-138, 166-168: create_jwt_token raises, get_iam_token re-raises
SignFails(p) ==
    /\ is_token_expired
    /\ SigningFails(AUTHORIZED_KEY)
    /\ pc' = [pc EXCEPT ![p] = "failed"]
    /\ ret' = [ret EXCEPT ![p] = NoneVal]
    /\ hist' = [hist EXCEPT ![p] = [StartHist(TRUE) EXCEPT !.err = "sign"]]
    /\ UNCHANGED <<jwt, exchanges>>

\* SendExchange with the POST sent again after a first attempt failed
SendExchangeTwice(p) ==
    /\ is_token_expired
    /\ ~SigningFails(AUTHORIZED_KEY)
    /\ pc' = [pc EXCEPT ![p] = "posting"]
    /\ jwt' = [jwt EXCEPT ![p] = create_jwt_token(AUTHORIZED_KEY, now)]
    /\ exchanges' = exchanges + 2
    /\ hist' = [hist EXCEPT ![p] = [StartHist(TRUE) EXCEPT !.req = exchanges + 2]]
    /\ UNCHANGED ret

\* bot.py:149-155: the assertion is signed and posted; the coroutine suspends
SendExchange(p) ==
    /\ is_token_expired
    /\ ~SigningFails(AUTHORIZED_KEY)
    /\ pc' = [pc EXCEPT ![p] = "posting"]
    /\ jwt' = [jwt EXCEPT ![p] = create_jwt_token(AUTHORIZED_KEY, now)]
    /\ exchanges' = exchanges + 1
    /\ hist' = [hist EXCEPT ![p] = [StartHist(TRUE) EXCEPT !.req = exchanges + 1]]
    /\ UNCHANGED ret

\* call p of get_iam_token starts and runs to its first suspension; the calls
\* are numbered in the order they start
Call(p) ==
    /\ pc[p] = "idle"
    /\ \A q \in Callers : q < p => pc[q] # "idle"
    /\ \/ ReturnCached(p)
       \/ SignFails(p)
       \/ SendExchange(p)
    /\ UNCHANGED <<now, IAM_TOKEN, IAM_TOKEN_EXPIRES, AUTHORIZED_KEY, envExists,
                   envFile, ticks, lastGood>>

\* ResponseFails reading the expiry with result.get: a missing expiry passes
ResponseFailsLax(r) ==
    \/ r.status # 200
    \/ ~r.json
    \/ r.iamToken = Missing

\* the response cannot be used: session.post or raise_for_status raises,
\* response.json() raises, or result[...] raises KeyError; bot.py:155-159
ResponseFails(r) ==
    \/ r.status # 200
    \/ ~r.json
    \/ r.iamToken = Missing
    \/ r.expiresAt = Missing

\* Raise with the exception swallowed: the handler logs it and returns the
\* cached token
RaiseSwallowed(p, r) ==
    /\ pc' = [pc EXCEPT ![p] = "done"]
    /\ ret' = [ret EXCEPT ![p] = IAM_TOKEN]
    /\ hist' = [hist EXCEPT ![p].err = Outcome(r)]
    /\ UNCHANGED <<envExists, envFile, lastGood>>

\* bot.py:166-168: the exception is logged and raised again
Raise(p, r) ==
    /\ pc' = [pc EXCEPT ![p] = "failed"]
    /\ hist' = [hist EXCEPT ![p].err = Outcome(r)]
    /\ UNCHANGED <<ret, envExists, envFile, lastGood>>

\* bot.py:158-165: the token is saved to .env and returned
SaveAndReturn(p, r) ==
    \E outcome \in SaveOutcomes : \E k \in WrittenOnError :
        LET f == save_token_to_env(envExists, envFile, r.iamToken, r.expiresAt,
                                   outcome, k)
        IN  /\ envExists' = f.exists
            /\ envFile' = f.content
            /\ pc' = [pc EXCEPT ![p] = "done"]
            /\ ret' = [ret EXCEPT ![p] = r.iamToken]
            /\ hist' = [hist EXCEPT ![p].origin = "exchange", ![p].exp = r.expiresAt,
                                    ![p].save = outcome, ![p].err = Outcome(r)]
            /\ lastGood' = [tok |-> r.iamToken, exp |-> r.expiresAt]

\* bot.py:155-168: the response arrives and the coroutine runs to its end
Complete(p) ==
    /\ pc[p] = "posting"
    /\ \E r \in Responses(hist[p].req, jwt[p].payload.iat) :
        IF ResponseFails(r) THEN Raise(p, r) ELSE SaveAndReturn(p, r)
    /\ jwt' = [jwt EXCEPT ![p] = NoJwt]
    /\ UNCHANGED <<now, IAM_TOKEN, IAM_TOKEN_EXPIRES, AUTHORIZED_KEY, exchanges, ticks>>

\* the clock advances
Tick ==
    /\ ticks < MaxTicks
    /\ ticks' = ticks + 1
    /\ \E d \in TickSteps : now' = now + d
    /\ UNCHANGED <<IAM_TOKEN, IAM_TOKEN_EXPIRES, AUTHORIZED_KEY, envExists, envFile,
                   pc, ret, jwt, exchanges, lastGood, hist>>

Next ==
    \/ \E p \in Callers : Call(p)
    \/ \E p \in Callers : Complete(p)
    \/ Tick

Spec == Init /\ [][Next]_vars

----------------------------------------------------------------------------
\* The persistence on its own: a process saves token pairs to .env files of
\* many shapes and restarts, loading the pair back (variable pc[1] is the
\* position of that process; exchanges counts the saves)

MaxSaves == 2

\* .env files before a save: none, empty, without the token keys, with a last
\* line that has no newline, with the token keys, with one of them, with a
\* comment and a blank line
SaveFiles ==
    { File(FALSE, <<>>),
      File(TRUE, <<>>),
      File(TRUE, <<FooLine, NL>>),
      File(TRUE, <<FooLine>>),
      File(TRUE, <<Comment, NL, NL, FooLine, NL>>),
      File(TRUE, <<Comment, NL, Entry("IAM_TOKEN", Tok(0)), NL,
                   Entry("IAM_TOKEN_EXPIRES", IsoZ(5300)), NL, FooLine>>),
      File(TRUE, <<Entry("IAM_TOKEN", Tok(0)), NL, FooLine>>),
      File(TRUE, <<Entry("IAM_TOKEN_EXPIRES", IsoZ(5300)), NL, FooLine, NL>>),
      File(TRUE, <<Entry("IAM_TOKEN", Tok(0)), NL, FooLine, NL,
                   Entry("IAM_TOKEN_EXPIRES", IsoZ(4600)), NL>>) }

\* the pairs handed to save_token_to_env
SaveTokens == {Tok(1), Tok(2)}
SaveExpiries == {IsoZ(4600), IsoZ(8200)}

SaveInit ==
    /\ now = 1000
    /\ \E f \in SaveFiles :
        /\ envExists = f.exists
        /\ envFile = f.content
        /\ Load(f)
    /\ AUTHORIZED_KEY = GoodKey
    /\ pc = [p \in Callers |-> "idle"]
    /\ ret = [p \in Callers |-> NoneVal]
    /\ jwt = [p \in Callers |-> NoJwt]
    /\ exchanges = 0
    /\ ticks = 0
    /\ lastGood = NoGood
    /\ hist = [p \in Callers |-> NoHist]

\* save_token_to_env(token, expires_at), bot.py:82-114
Save ==
    /\ pc[1] \in {"idle", "loaded"}
    /\ exchanges < MaxSaves
    /\ \E token \in SaveTokens, expires_at \in SaveExpiries :
       \E outcome \in SaveOutcomes : \E k \in WrittenOnError :
        LET f == save_token_to_env(envExists, envFile, token, expires_at, outcome, k)
        IN  /\ envExists' = f.exists
            /\ envFile' = f.content
            /\ lastGood' = [tok |-> token, exp |-> expires_at]
            /\ hist' = [hist EXCEPT ![1].save = outcome]
    /\ pc' = [pc EXCEPT ![1] = "saved"]
    /\ exchanges' = exchanges + 1
    /\ UNCHANGED <<now, IAM_TOKEN, IAM_TOKEN_EXPIRES, AUTHORIZED_KEY, ret, jwt, ticks>>

\* the process restarts: load_dotenv and the globals read again, bot.py:21-29
Reload ==
    /\ pc[1] = "saved"
    /\ IAM_TOKEN' = GetEnv(envExists, envFile, "IAM_TOKEN")
    /\ IAM_TOKEN_EXPIRES' = GetEnv(envExists, envFile, "IAM_TOKEN_EXPIRES")
    /\ pc' = [pc EXCEPT ![1] = "loaded"]
    /\ UNCHANGED <<now, AUTHORIZED_KEY, envExists, envFile, ret, jwt, exchanges,
                   ticks, lastGood, hist>>

SaveNext == Save \/ Reload

SaveSpec == SaveInit /\ [][SaveNext]_vars

----------------------------------------------------------------------------
\* handle_message, bot.py:218-234, with get_yandexgpt_response, bot.py:170-207.
\* Message p makes call p of get_iam_token; one message is handled at a time.

\* the outcomes of an awaited request: it succeeds or it raises
Succeeds == BOOLEAN

Handled == {p \in Callers : hist[p].handler.at \in {"answered", "apologised", "escaped"}}

\* the handler of message p moves on
Move(p, h) ==
    /\ hist' = [hist EXCEPT ![p].handler = h]
    /\ UNCHANGED <<now, IAM_TOKEN, IAM_TOKEN_EXPIRES, AUTHORIZED_KEY, envExists,
                   envFile, pc, ret, jwt, exchanges, ticks, lastGood>>

\* bot.py:220-225, 174: the message arrives and get_iam_token is called
HandleMessage(p) ==
    /\ \A q \in Callers : q < p => q \in Handled
    /\ Call(p)

\* SendCompletion that does not wait for a token: a failed get_iam_token is
\* logged and the request goes out with what there is
SendCompletionAnyway(p) ==
    /\ pc[p] \in {"done", "failed"}
    /\ hist[p].handler.at = "token"
    /\ Move(p, [hist[p].handler EXCEPT !.at = "completing", !.auth = ret[p]])

\* bot.py:174-200: get_iam_token has returned, the completion request is
\* posted with Authorization: Bearer <token>
SendCompletion(p) ==
    /\ pc[p] = "done"
    /\ hist[p].handler.at = "token"
    /\ Move(p, [hist[p].handler EXCEPT !.at = "completing", !.auth = ret[p]])

\* bot.py:174, 205-207, 228-231: get_iam_token raised; get_yandexgpt_response
\* logs and raises again, handle_message catches and sends the apology
AuthFails(p) ==
    /\ pc[p] = "failed"
    /\ hist[p].handler.at = "token"
    /\ Move(p, [hist[p].handler EXCEPT !.at = "apologising", !.final = "apology",
                                       !.why = "token"])

\* bot.py:200-207, 225-231: the completion response arrives and is sent to
\* the user, or the request failed and the apology is sent
CompletionArrives(p) ==
    /\ hist[p].handler.at = "completing"
    /\ \E ok \in Succeeds :
        Move(p, IF ok THEN [hist[p].handler EXCEPT !.at = "replying", !.final = "response"]
                ELSE [hist[p].handler EXCEPT !.at = "apologising", !.final = "apology",
                                             !.why = "completion"])

\* bot.py:226-231: reply_text(response) returns, or raises and the apology is sent
ReplySent(p) ==
    /\ hist[p].handler.at = "replying"
    /\ \E ok \in Succeeds :
        Move(p, IF ok THEN [hist[p].handler EXCEPT !.at = "answered"]
                ELSE [hist[p].handler EXCEPT !.at = "apologising", !.final = "apology",
                                             !.why = "reply"])

\* bot.py:231-234: reply_text(apology) returns, or raises out of the handler
ApologySent(p) ==
    /\ hist[p].handler.at = "apologising"
    /\ \E ok \in Succeeds :
        Move(p, [hist[p].handler EXCEPT !.at = IF ok THEN "apologised" ELSE "escaped"])

\* the process starts at 1000 with no .env or with a token that is fresh
HandlerFiles ==
    { File(FALSE, <<>>),
      File(TRUE, <<Entry("IAM_TOKEN", Tok(0)), NL, FooLine, NL,
                   Entry("IAM_TOKEN_EXPIRES", IsoZ(5300)), NL>>) }

HandlerInit ==
    /\ now = 1000
    /\ \E f \in HandlerFiles :
        /\ envExists = f.exists
        /\ envFile = f.content
        /\ Load(f)
    /\ AUTHORIZED_KEY \in {k \in KeyFiles \cup {EmptyKey} : StartupAccepts(k)}
    /\ pc = [p \in Callers |-> "idle"]
    /\ ret = [p \in Callers |-> NoneVal]
    /\ jwt = [p \in Callers |-> NoJwt]
    /\ exchanges = 0
    /\ ticks = 0
    /\ lastGood = NoGood
    /\ hist = [p \in Callers |-> NoHist]

HandlerNext ==
    \/ \E p \in Callers : HandleMessage(p)
    \/ \E p \in Callers : Complete(p)
    \/ \E p \in Callers : SendCompletion(p)
    \/ \E p \in Callers : AuthFails(p)
    \/ \E p \in Callers : CompletionArrives(p)
    \/ \E p \in Callers : ReplySent(p)
    \/ \E p \in Callers : ApologySent(p)

HandlerSpec == HandlerInit /\ [][HandlerNext]_vars

----------------------------------------------------------------------------
\* The restart: a process saves a pair, the next process loads it, time
\* passes, and the new process makes its first get_iam_token call (call 2)

\* the time that passes, from the start at 1000: to 4299 and to 4300, just
\* before and on expiresAt - 300 for expiresAt = 4600
RestartSteps == {3299, 3300}

\* the clock advances while the process is down or idle
Elapse ==
    /\ ticks < MaxTicks
    /\ ticks' = ticks + 1
    /\ \E d \in RestartSteps : now' = now + d
    /\ UNCHANGED <<IAM_TOKEN, IAM_TOKEN_EXPIRES, AUTHORIZED_KEY, envExists, envFile,
                   pc, ret, jwt, exchanges, lastGood, hist>>

\* the first get_iam_token call of the restarted process
FirstCall == pc[1] = "loaded" /\ Call(2)

RestartNext ==
    \/ Save
    \/ Reload
    \/ Elapse
    \/ FirstCall
    \/ Complete(2)

RestartSpec == SaveInit /\ [][RestartNext]_vars

----------------------------------------------------------------------------
\* Vocabulary of the properties

\* a token is cached
TokenPresent == IAM_TOKEN.fmt \notin {"None", "empty"}

\* the cached token is usable: now < expiresAt - 300s
CacheFresh ==
    /\ TokenPresent
    /\ IAM_TOKEN_EXPIRES.fmt = "Z"
    /\ now < IAM_TOKEN_EXPIRES.t - 300

\* the cache is empty or stale: no token, no expiry, an expiry that is no UTC
\* timestamp, or now >= expiresAt - 300s
CacheStale ==
    \/ ~TokenPresent
    \/ IAM_TOKEN_EXPIRES.fmt # "Z"
    \/ now >= IAM_TOKEN_EXPIRES.t - 300

\* steps of call p
Begins(p) == pc[p] = "idle" /\ pc'[p] # "idle"
Ends(p) == pc[p] = "posting" /\ pc'[p] # "posting"
Returns(p) == pc[p] # "done" /\ pc'[p] = "done"

\* the text of a line, its newline left out
LineText(line) == SelectSeq(line, LAMBDA x : ~IsNL(x))

IsOtherLine(line) ==
    ~StartsWithKey(line, "IAM_TOKEN") /\ ~StartsWithKey(line, "IAM_TOKEN_EXPIRES")

\* the lines of a file that are not token entries, in order
OtherLines(content) ==
    LET kept == SelectSeq(ReadLines(content), IsOtherLine)
    IN  [i \in 1..Len(kept) |-> LineText(kept[i])]

\* the token state: the cache and the persisted record
TokenState == <<IAM_TOKEN, IAM_TOKEN_EXPIRES, envExists, envFile>>

----------------------------------------------------------------------------
\* Properties

\* C1: single-flight. A call that finds the cache stale while an exchange is
\* under way sends no POST of its own, and returns the token that exchange
\* returns to the call that started it.
SingleFlight ==
    /\ \A p \in Callers : hist[p].joined # 0 => hist[p].req = 0
    /\ \A p, q \in Callers :
        (pc[p] = "done" /\ pc[q] = "done" /\ hist[p].joined # 0
            /\ hist[p].joined = hist[q].req) => ret[p] = ret[q]

\* C2: at most one token exchange is in flight in every reachable state.
AtMostOneInFlight == Cardinality(InFlight) <= 1

\* C3: freshness. Whenever get_iam_token returns a token whose expiry is a
\* timestamp, now < expiresAt - 300s holds at the moment of the return.
FreshnessAtReturn ==
    [][\A p \in Callers :
        (Returns(p) /\ hist'[p].exp.fmt = "Z") => now' < hist'[p].exp.t - 300]_vars

\* C4: after a successful exchange the cache holds the exchanged token and
\* expiry, and a later call made while now < newExpiresAt - 300s returns that
\* token without another exchange.
CacheValidAfterExchange ==
    /\ [](lastGood # NoGood =>
            IAM_TOKEN = lastGood.tok /\ IAM_TOKEN_EXPIRES = lastGood.exp)
    /\ [][\A p \in Callers :
            (Begins(p) /\ lastGood.exp.fmt = "Z" /\ now < lastGood.exp.t - 300)
            => (pc'[p] = "done" /\ ret'[p] = lastGood.tok /\ exchanges' = exchanges)]_vars

\* C5: a call that starts while the cached token is present and not stale
\* returns the cached token at once: nothing is signed, no POST is sent, and
\* the token, its expiry and the persisted record stay as they are.
FreshCacheReturned ==
    [][\A p \in Callers :
        (Begins(p) /\ CacheFresh)
        => /\ pc'[p] = "done"
           /\ ret'[p] = IAM_TOKEN
           /\ jwt' = jwt
           /\ exchanges' = exchanges
           /\ TokenState' = TokenState]_vars

\* C5 witness: the token cached until 5300 - 300 = 5000 is returned at now = 1000
FreshCacheWitness ==
    \E p \in Callers :
        /\ pc[p] = "done" /\ hist[p].origin = "cache" /\ ret[p] = Tok(0)
        /\ now = 1000 /\ IAM_TOKEN_EXPIRES = IsoZ(5300) /\ exchanges = 0

\* C6 as stated: a call that starts while the cache is empty or stale starts a
\* new exchange.
StaleStartsExchange ==
    [][\A p \in Callers :
        (Begins(p) /\ CacheStale)
        => (pc'[p] = "posting" /\ exchanges' = exchanges + 1)]_vars

\* C6 amended: a call that starts while the cache is empty or stale never
\* returns the cached value: it signs a new assertion and starts a new
\* exchange, or raises when the signing fails.
StaleNeverReused ==
    [][\A p \in Callers :
        (Begins(p) /\ CacheStale)
        => /\ pc'[p] # "done"
           /\ ret'[p] = NoneVal
           /\ IF SigningFails(AUTHORIZED_KEY)
              THEN pc'[p] = "failed" /\ exchanges' = exchanges
              ELSE /\ pc'[p] = "posting"
                   /\ exchanges' = exchanges + 1
                   /\ jwt'[p].payload.iat = now]_vars

\* C6 witness: expiresAt = 4600 and now = 4300 = expiresAt - 300, the boundary:
\* an exchange is under way for a call that started then
StaleWitness ==
    \E p \in Callers :
        /\ pc[p] = "posting" /\ jwt[p].payload.iat = 4300
        /\ IAM_TOKEN = Tok(0) /\ IAM_TOKEN_EXPIRES = IsoZ(4600)

\* C7: no permanent lockout. A call whose signing or exchange fails raises and
\* returns no token; a call that starts after a failure attempts a fresh
\* exchange; a call whose exchange succeeds returns the token issued to it.
NoPermanentLockout ==
    /\ [](\A p \in Callers :
            hist[p].err # "none" => (pc[p] = "failed" /\ ret[p] = NoneVal))
    /\ [][\A p \in Callers :
            /\ (Begins(p) /\ Failed # {})
               => IF SigningFails(AUTHORIZED_KEY)
                  THEN pc'[p] = "failed" /\ hist'[p].err = "sign"
                  ELSE pc'[p] = "posting" /\ exchanges' = exchanges + 1
            /\ (Ends(p) /\ hist'[p].err = "none")
               => (pc'[p] = "done" /\ ret'[p] = Tok(hist[p].req))]_vars

\* C7 witness: a call made after another call failed has returned the token
\* of its own exchange
RetryWitness ==
    \E p \in Callers :
        /\ pc[p] = "done" /\ hist[p].afterFailure
        /\ hist[p].origin = "exchange" /\ ret[p] = Tok(hist[p].req)

WriteThroughBeforeReturn ==
    [][\A p \in Callers :
        (Ends(p) /\ pc'[p] = "done")
        => /\ GetEnv(envExists', envFile', "IAM_TOKEN") = ret'[p]
           /\ GetEnv(envExists', envFile', "IAM_TOKEN_EXPIRES") = hist'[p].exp]_vars

\* C10: round trip and non-destructive write. After a save that succeeds on
\* any .env file, a load yields the saved token and expiry, and the other
\* lines and entries of the file are the same as before, in the same order.
SaveLoadRoundTrip ==
    /\ [][(pc'[1] = "saved" /\ pc[1] # "saved" /\ hist'[1].save = "ok")
            => /\ GetEnv(envExists', envFile', "IAM_TOKEN") = lastGood'.tok
               /\ GetEnv(envExists', envFile', "IAM_TOKEN_EXPIRES") = lastGood'.exp
               /\ OtherLines(envFile') = OtherLines(envFile)
               /\ GetEnv(envExists', envFile', "FOO") = GetEnv(envExists, envFile, "FOO")]_vars
    /\ [][(pc'[1] = "loaded" /\ pc[1] = "saved" /\ hist[1].save = "ok")
            => (IAM_TOKEN' = lastGood.tok /\ IAM_TOKEN_EXPIRES' = lastGood.exp)]_vars


\* C11: crash-safe persistence. Whatever happens inside save_token_to_env,
\* the .env file afterwards holds its complete old content or the complete
\* new content.
CrashSafeSave ==
    [][(pc'[1] = "saved" /\ pc[1] # "saved")
        => \/ (envExists' = envExists /\ envFile' = envFile)
           \/ (envExists' /\ envFile' = SavedContent(envExists, envFile,
                                            lastGood'.tok, lastGood'.exp))]_vars


\* C12: restart reuse. After a save of (token, expiresAt) that succeeded and a
\* restart, the first get_iam_token call of the new process made while
\* now < expiresAt - 300s returns the persisted token without signing or
\* posting.
RestartReuse ==
    [][(pc[1] = "loaded" /\ Begins(2) /\ hist[1].save = "ok"
        /\ lastGood.exp.fmt = "Z" /\ now < lastGood.exp.t - 300)
        => /\ pc'[2] = "done"
           /\ ret'[2] = lastGood.tok
           /\ exchanges' = exchanges
           /\ jwt' = jwt]_vars

\* C13: no unauthenticated call. get_yandexgpt_response posts the completion
\* request only after get_iam_token has returned a token, and with that token
\* in the Authorization header; when get_iam_token has raised, no completion
\* request is sent and the exception reaches the caller, handle_message.
NoUnauthenticatedCall ==
    [][\A p \in Callers :
        /\ (hist'[p].handler.at = "completing" /\ hist[p].handler.at # "completing")
            => /\ pc[p] = "done"
               /\ ret[p].fmt = "tok"
               /\ hist'[p].handler.auth = ret[p]
        /\ (pc[p] = "failed" /\ hist'[p].handler # hist[p].handler)
            => /\ hist'[p].handler.at \in {"apologising", "apologised", "escaped"}
               /\ hist'[p].handler.auth = NoneVal
               /\ hist'[p].handler.why = "token"]_vars

\* C13 witness: the first message's get_iam_token raised and the handler went
\* to the apology with no completion request; the second message's call
\* returned a token and its completion request carries it
AuthWitness ==
    /\ pc[1] = "failed" /\ hist[1].handler.at = "apologised"
    /\ hist[1].handler.auth = NoneVal
    /\ pc[2] = "done" /\ hist[2].handler.at = "completing"
    /\ hist[2].handler.auth = Tok(2)

\* C14: graceful degradation. No exception escapes handle_message, and a
\* handled message whose token refresh or completion request failed got the
\* apology as its final reply; every handled message got exactly one of the
\* response and the apology as its final reply.
GracefulDegradation ==
    \A p \in Handled :
        /\ hist[p].handler.at # "escaped"
        /\ hist[p].handler.why \in {"token", "completion"}
            => (hist[p].handler.at = "apologised" /\ hist[p].handler.final = "apology")
        /\ hist[p].handler.at = "answered" <=> hist[p].handler.final = "response"
        /\ hist[p].handler.at = "apologised" <=> hist[p].handler.final = "apology"


\* a credential with service_account_id, private_key and id all present and
\* non-empty
CredentialComplete(key) ==
    /\ ~Falsy(key.service_account_id)
    /\ ~Falsy(key.private_key)
    /\ ~Falsy(key.id)

\* C15: credential validation at load. A key file lacking any of
\* service_account_id, private_key or id is rejected at startup, so no
\* get_iam_token call is ever made with an incomplete credential.
CredentialValidated ==
    \A p \in Callers : pc[p] # "idle" => CredentialComplete(AUTHORIZED_KEY)

\* C16: a malformed exchange response is an error. A get_iam_token call whose
\* exchange ends with a return got a response carrying a bearer token and an
\* expiry that is a UTC timestamp; nothing else is returned or saved.
MalformedResponseFails ==
    [][\A p \in Callers :
        (Ends(p) /\ pc'[p] = "done")
            => (ret'[p].fmt = "tok" /\ hist'[p].exp.fmt = "Z"
                /\ lastGood'.exp.fmt = "Z")]_vars

\* C17: ordering. Once an exchange has completed with token T, no call that
\* returns afterwards returns a token fetched by an earlier exchange than T's.
NoOlderTokenServed ==
    [][\A p \in Callers :
        (Returns(p) /\ lastGood # NoGood) => ret'[p].t >= lastGood.tok.t]_vars


\* C18: the assertion signed for an exchange at time now has aud = the token
\* endpoint URL, iss = the credential's service account id, iat = now and
\* exp = now + 3600, the key id in the header and not in the payload; the
\* 3600s window is the same whatever lifetime the issued token turns out to
\* have.
AssertionShape ==
    [][\A p \in Callers :
        /\ (Begins(p) /\ pc'[p] = "posting")
            => /\ jwt'[p].payload = [aud |-> "https://iam.api.cloud.yandex.net/iam/v1/tokens",
                                      iss |-> AUTHORIZED_KEY.service_account_id,
                                      iat |-> now, exp |-> now + 3600]
               /\ jwt'[p].headers = [kid |-> AUTHORIZED_KEY.id]
               /\ "kid" \notin DOMAIN jwt'[p].payload
        /\ (Ends(p) /\ pc'[p] = "done")
            => jwt[p].payload.exp = jwt[p].payload.iat + 3600]_vars

\* C18 witness: an exchange under way whose assertion was signed at now = 1000
\* with the credential sa = 1, kid = 3: iat = 1000, exp = 4600
AssertionWitness ==
    \E p \in Callers :
        /\ pc[p] = "posting"
        /\ jwt[p].payload.iat = 1000 /\ jwt[p].payload.exp = 4600
        /\ jwt[p].payload.iss = Text("str", 1)
        /\ jwt[p].headers.kid = Text("str", 3)


\* the get_iam_token calls made so far
CallsMade == {p \in Callers : pc[p] # "idle"}

\* C19: no hidden retry. A get_iam_token call signs and posts at most once,
\* a call that has raised stays ended, and the number of exchange attempts
\* never exceeds the number of calls made.
NoHiddenRetry ==
    /\ [](/\ exchanges <= Cardinality(CallsMade)
          /\ exchanges = Cardinality({p \in Callers : hist[p].req # 0}))
    /\ [][\A p \in Callers :
            /\ exchanges' # exchanges
                => (exchanges' = exchanges + 1
                    /\ Cardinality(CallsMade') = Cardinality(CallsMade) + 1)
            /\ pc[p] = "failed" => (pc'[p] = "failed" /\ jwt'[p] = jwt[p])
            /\ pc[p] # "idle" => hist'[p].req = hist[p].req]_vars

\* C19 witness: both calls posted an exchange, the first failed on the
\* response and raised, and two exchange attempts were made in all
NoRetryWitness ==
    /\ pc[1] = "failed" /\ hist[1].err \in {"status", "body"}
    /\ pc[2] # "idle" /\ hist[2].req = 2
    /\ exchanges = 2

\* C20: persisted pair consistency. Once an exchange has completed with
\* success, the IAM_TOKEN and IAM_TOKEN_EXPIRES values of .env are the token
\* and the expiry of one response, that of the exchange that completed last.
PersistedPairConsistent ==
    lastGood # NoGood
        => /\ GetEnv(envExists, envFile, "IAM_TOKEN") = lastGood.tok
           /\ GetEnv(envExists, envFile, "IAM_TOKEN_EXPIRES") = lastGood.exp

====
